---- MODULE Spec2Model ----
(***************************************************************************)
(* Model of the chatvibes music bridge:                                    *)
(*   src/components/music/musicService.py      (generate_music, __main__)  *)
(*   src/components/music/test_error_handling.py (categorize_error and the *)
(*                                                harness loop)            *)
(* Python str values are TLA+ strings; lower(), "in" and slicing are       *)
(* computed character by character.                                        *)
(***************************************************************************)
EXTENDS Integers, Sequences, FiniteSets, TLC

VARIABLES pc, argv, env, parsed, prompt, negative_prompt, seed, input_data,
          output, error_msg, result, stdout, stderr,
          raw_error, error_type, cat, test_i, printed

vars == <<pc, argv, env, parsed, prompt, negative_prompt, seed, input_data,
          output, error_msg, result, stdout, stderr,
          raw_error, error_type, cat, test_i, printed>>

musicVars == <<argv, env, parsed, prompt, negative_prompt, seed, input_data,
               output, error_msg, result, stdout, stderr>>

catVars == <<raw_error, error_type, cat, test_i, printed>>

(***************************************************************************)
(* Bounds                                                                  *)
(***************************************************************************)
\* a raw error message is at most MaxFrags fragments joined by blanks
MaxFrags == 2

(***************************************************************************)
(* Python str operations                                                   *)
(***************************************************************************)
UpperChars == "ABCDEFGHIJKLMNOPQRSTUVWXYZ"
LowerChars == "abcdefghijklmnopqrstuvwxyz"

\* str.lower() on one character
LowerChar(c) ==
    IF \E i \in 1..Len(UpperChars) : SubSeq(UpperChars, i, i) = c
    THEN LET i == CHOOSE j \in 1..Len(UpperChars) : SubSeq(UpperChars, j, j) = c
         IN  SubSeq(LowerChars, i, i)
    ELSE c

\* str.lower()
RECURSIVE Lower(_)
Lower(s) ==
    IF Len(s) = 0 THEN s
    ELSE LowerChar(SubSeq(s, 1, 1)) \o Lower(SubSeq(s, 2, Len(s)))

\* sub in s
Contains(sub, s) ==
    \E i \in 1..(Len(s) - Len(sub) + 1) : SubSeq(s, i, i + Len(sub) - 1) = sub

\* s[:n]
Take(s, n) == SubSeq(s, 1, IF Len(s) < n THEN Len(s) ELSE n)

(***************************************************************************)
(* Python / JSON values: str, int, None, and an object json cannot dump    *)
(***************************************************************************)
PyStr(x) == [t |-> "str", s |-> x, n |-> 0]
PyInt(k) == [t |-> "int", s |-> "", n |-> k]
None   == [t |-> "none", s |-> "", n |-> 0]
Obj    == [t |-> "obj", s |-> "", n |-> 0]

\* truth value of "if v:"
Truthy(v) ==
    CASE v.t = "str"  -> v.s # ""
      [] v.t = "int"  -> v.n # 0
      [] v.t = "none" -> FALSE
      [] OTHER        -> TRUE

(***************************************************************************)
(* categorize_error (test_error_handling.py)                               *)
(***************************************************************************)
\* line 21
IsServiceUnavailable(raw, error_lower) ==
    Contains("service is temporarily unavailable", error_lower)
    \/ Contains("(E004)", raw)

\* line 28
IsArtistNames(error_lower) ==
    Contains("prompt was rejected", error_lower)
    /\ Contains("artist names", error_lower)

\* line 35
IsRateLimited(error_lower) ==
    Contains("rate limit", error_lower) \/ Contains("quota exceeded", error_lower)

\* IsTimeout with the "timed out" alternative left out
IsTimeoutWordOnly(error_lower) ==
    Contains("timeout", error_lower)

\* line 42
IsTimeout(error_lower) ==
    Contains("timeout", error_lower) \/ Contains("timed out", error_lower)

\* line 49
IsAuthError(error_lower) ==
    Contains("invalid", error_lower) /\ Contains("token", error_lower)

\* IsContentPolicy with the "safety" alternative left out
IsContentPolicyLiteralOnly(error_lower) ==
    Contains("content policy", error_lower)

\* line 56
IsContentPolicy(error_lower) ==
    Contains("content policy", error_lower) \/ Contains("safety", error_lower)

\* categorize_error with the timeout rule tested before the rate-limit rule
categorize_error_timeout_first(raw, etype) ==
    LET error_lower == Lower(raw) IN
    IF IsServiceUnavailable(raw, error_lower)
    THEN [type |-> "service_unavailable",
          userMessage |-> "The music generation service is temporarily unavailable. Please try again in a few minutes.",
          logMessage |-> "Service unavailable error: " \o raw]
    ELSE IF IsArtistNames(error_lower)
    THEN [type |-> "artist_names_rejected",
          userMessage |-> "Prompt was rejected. Please do not include specific artist names in your prompt.",
          logMessage |-> "Prompt rejected for artist names: " \o raw]
    ELSE IF IsTimeout(error_lower)
    THEN [type |-> "timeout",
          userMessage |-> "Music generation timed out. Please try again with a simpler prompt.",
          logMessage |-> "Timeout error: " \o raw]
    ELSE IF IsRateLimited(error_lower)
    THEN [type |-> "rate_limited",
          userMessage |-> "Rate limit exceeded. Please wait a moment before trying again.",
          logMessage |-> "Rate limit error: " \o raw]
    ELSE IF IsAuthError(error_lower)
    THEN [type |-> "auth_error",
          userMessage |-> "Authentication error. Please contact the bot administrator.",
          logMessage |-> "Auth error: " \o raw]
    ELSE IF IsContentPolicy(error_lower)
    THEN [type |-> "content_policy",
          userMessage |-> "Your prompt was rejected for safety reasons. Please try a different prompt.",
          logMessage |-> "Content policy violation: " \o raw]
    ELSE [type |-> "unknown_error",
          userMessage |-> "An unexpected error occurred. Please try again later.",
          logMessage |-> "Unknown error (" \o etype \o "): " \o raw]

\* lines 18-67
categorize_error(raw, etype) ==
    LET error_lower == Lower(raw) IN
    IF IsServiceUnavailable(raw, error_lower)
    THEN [type |-> "service_unavailable",
          userMessage |-> "The music generation service is temporarily unavailable. Please try again in a few minutes.",
          logMessage |-> "Service unavailable error: " \o raw]
    ELSE IF IsArtistNames(error_lower)
    THEN [type |-> "artist_names_rejected",
          userMessage |-> "Prompt was rejected. Please do not include specific artist names in your prompt.",
          logMessage |-> "Prompt rejected for artist names: " \o raw]
    ELSE IF IsRateLimited(error_lower)
    THEN [type |-> "rate_limited",
          userMessage |-> "Rate limit exceeded. Please wait a moment before trying again.",
          logMessage |-> "Rate limit error: " \o raw]
    ELSE IF IsTimeout(error_lower)
    THEN [type |-> "timeout",
          userMessage |-> "Music generation timed out. Please try again with a simpler prompt.",
          logMessage |-> "Timeout error: " \o raw]
    ELSE IF IsAuthError(error_lower)
    THEN [type |-> "auth_error",
          userMessage |-> "Authentication error. Please contact the bot administrator.",
          logMessage |-> "Auth error: " \o raw]
    ELSE IF IsContentPolicy(error_lower)
    THEN [type |-> "content_policy",
          userMessage |-> "Your prompt was rejected for safety reasons. Please try a different prompt.",
          logMessage |-> "Content policy violation: " \o raw]
    ELSE [type |-> "unknown_error",
          userMessage |-> "An unexpected error occurred. Please try again later.",
          logMessage |-> "Unknown error (" \o etype \o "): " \o raw]

\* the harness's sample inputs
test_errors ==
    << "Service is temporarily unavailable. Please try again later. (E004)",
       "Prompt was rejected because it contains artist names",
       "Rate limit exceeded for this API key",
       "Request timed out after 60 seconds",
       "Invalid API token provided",
       "Content violates safety policy",
       "Some unknown error occurred" >>

(***************************************************************************)
(* Input domains                                                           *)
(***************************************************************************)
\* pieces of provider error text, in the letter cases that tell the rules apart
Frags ==
    << "Service is temporarily unavailable", "(E004)", "(e004)",
       "Prompt was rejected", "prompt was rejected", "artist names",
       "Rate limit", "quota exceeded", "timeout", "Timed out",
       "Invalid", "token", "content policy", "Safety",
       "Some unknown error occurred" >>

RECURSIVE Join(_)
Join(fs) ==
    IF Len(fs) = 0 THEN ""
    ELSE IF Len(fs) = 1 THEN fs[1]
    ELSE fs[1] \o " " \o Join(Tail(fs))

Messages ==
    UNION { { Join([i \in 1..n |-> Frags[f[i]]]) : f \in [1..n -> 1..Len(Frags)] } :
            n \in 0..MaxFrags }
    \cup { test_errors[i] : i \in 1..Len(test_errors) }

ErrorTypes == {"TestError", "Exception"}

\* a dict no statement has assigned yet
NoDict == [x \in {} |-> None]

MusicIdle ==
    /\ argv = [kind |-> "missing", obj |-> NoDict]
    /\ env = FALSE
    /\ parsed = NoDict
    /\ prompt = None
    /\ negative_prompt = None
    /\ seed = None
    /\ input_data = NoDict
    /\ output = [shape |-> "none", url |-> None]
    /\ error_msg = ""
    /\ result = NoDict
    /\ stdout = <<>>
    /\ stderr = <<>>

(***************************************************************************)
(* test_error_handling.py: categorize_error applied to one input, and the  *)
(* harness loop over test_errors                                           *)
(***************************************************************************)
NoCat == [type |-> "", userMessage |-> "", logMessage |-> ""]

InitCat ==
    /\ MusicIdle
    /\ cat = NoCat
    /\ test_i = 1
    /\ printed = <<>>
    /\ \/ /\ pc = "cat"
          /\ raw_error \in Messages
          /\ error_type \in ErrorTypes
       \/ /\ pc = "harness"
          /\ raw_error = ""
          /\ error_type = "TestError"

\* result = categorize_error(raw_error, error_type)
Categorize ==
    /\ pc = "cat"
    /\ cat' = categorize_error(raw_error, error_type)
    /\ pc' = "done"
    /\ UNCHANGED <<musicVars, raw_error, error_type, test_i, printed>>

\* one iteration of "for i, error in enumerate(test_errors, 1)"
TestLoop ==
    /\ pc = "harness"
    /\ test_i <= Len(test_errors)
    /\ LET r == categorize_error(test_errors[test_i], "TestError")
       IN  printed' = Append(printed, [input |-> test_errors[test_i],
                                       type |-> r.type,
                                       user |-> r.userMessage,
                                       log |-> r.logMessage])
    /\ test_i' = test_i + 1
    /\ pc' = IF test_i = Len(test_errors) THEN "done" ELSE "harness"
    /\ UNCHANGED <<musicVars, raw_error, error_type, cat>>

NextCat == Categorize \/ TestLoop

SpecCat == InitCat /\ [][NextCat]_vars

(***************************************************************************)
(* musicService.py                                                         *)
(***************************************************************************)
CatIdle ==
    /\ raw_error = ""
    /\ error_type = ""
    /\ cat = NoCat
    /\ test_i = 1
    /\ printed = <<>>

LongPrompt == "a slow lofi beat with warm vinyl crackle and soft rhodes chords"

\* the JSON objects sys.argv[1] may hold
Requests ==
    LET Vals(k) == CASE k = "prompt"          -> {PyStr(LongPrompt), PyInt(5)}
                     [] k = "negative_prompt" -> {PyStr(""), PyStr("vocals")}
                     [] k = "seed"            -> {PyInt(0), PyInt(7)}
                     [] k = "duration"        -> {PyInt(30)}
    IN  UNION { { d \in [ks -> UNION {Vals(k) : k \in ks}] :
                    \A k \in ks : d[k] \in Vals(k) } :
                ks \in SUBSET {"prompt", "negative_prompt", "seed", "duration"} }

\* sys.argv: no argument, text that is not JSON, JSON that is not an object,
\* or a JSON object
Argvs ==
    { [kind |-> k, obj |-> NoDict] : k \in {"missing", "malformed", "nonobject"} }
    \cup { [kind |-> "object", obj |-> d] : d \in Requests }

AudioUrl == "https://replicate.delivery/out.wav"

\* what replicate_client.run hands back: a str, a FileOutput-like object with
\* a url attribute, or something else
Outputs ==
    { [shape |-> "str", url |-> PyStr(AudioUrl)],
      [shape |-> "FileOutput", url |-> PyStr(AudioUrl)],
      [shape |-> "FileOutput", url |-> Obj],
      [shape |-> "list", url |-> None] }

Init ==
    /\ pc = "main"
    /\ argv \in Argvs
    /\ env \in BOOLEAN
    /\ parsed = NoDict
    /\ prompt = None
    /\ negative_prompt = None
    /\ seed = None
    /\ input_data = NoDict
    /\ output = [shape |-> "none", url |-> None]
    /\ error_msg = ""
    /\ result = NoDict
    /\ stdout = <<>>
    /\ stderr = <<>>
    /\ CatIdle

\* lines 73-79: argument check and json.loads
ParseArgs ==
    /\ pc = "main"
    /\ IF argv.kind = "missing"
       THEN /\ error_msg' = "No input arguments provided"
            /\ pc' = "main_except"
            /\ UNCHANGED <<parsed, stderr>>
       ELSE IF argv.kind = "malformed"
       THEN /\ error_msg' = "Expecting value: line 1 column 1 (char 0)"
            /\ pc' = "main_except"
            /\ UNCHANGED <<parsed, stderr>>
       ELSE /\ parsed' = argv.obj
            /\ stderr' = Append(stderr, [status |-> "initialized"])
            /\ pc' = "call"
            /\ UNCHANGED error_msg
    /\ UNCHANGED <<argv, env, prompt, negative_prompt, seed, input_data,
                   output, result, stdout, catVars>>

\* line 82: generate_music(**input_data) binds the keyword arguments
CallGenerate ==
    /\ pc = "call"
    /\ IF argv.kind # "object"
       THEN /\ error_msg' = "generate_music() argument after ** must be a mapping"
            /\ pc' = "main_except"
            /\ UNCHANGED <<prompt, negative_prompt, seed>>
       ELSE IF ~ (DOMAIN parsed \subseteq {"prompt", "negative_prompt", "seed"})
       THEN /\ error_msg' = "generate_music() got an unexpected keyword argument"
            /\ pc' = "main_except"
            /\ UNCHANGED <<prompt, negative_prompt, seed>>
       ELSE IF "prompt" \notin DOMAIN parsed
       THEN /\ error_msg' = "generate_music() missing 1 required positional argument: 'prompt'"
            /\ pc' = "main_except"
            /\ UNCHANGED <<prompt, negative_prompt, seed>>
       ELSE /\ prompt' = parsed["prompt"]
            /\ negative_prompt' = IF "negative_prompt" \in DOMAIN parsed
                                  THEN parsed["negative_prompt"] ELSE None
            /\ seed' = IF "seed" \in DOMAIN parsed THEN parsed["seed"] ELSE None
            /\ pc' = "gm_client"
            /\ UNCHANGED error_msg
    /\ UNCHANGED <<argv, env, parsed, input_data, output, result, stdout,
                   stderr, catVars>>

\* line 10: replicate.Client(api_token=os.environ["REPLICATE_API_TOKEN"])
InitClient ==
    /\ pc = "gm_client"
    /\ IF env
       THEN /\ pc' = "gm_input"
            /\ UNCHANGED error_msg
       ELSE /\ error_msg' = "'REPLICATE_API_TOKEN'"
            /\ pc' = "gm_except"
    /\ UNCHANGED <<argv, env, parsed, prompt, negative_prompt, seed,
                   input_data, output, result, stdout, stderr, catVars>>

\* lines 13-17: the provider input object
BuildInput(p, np, sd) ==
    LET d0 == [k \in {"prompt"} |-> p]
        d1 == IF Truthy(np) THEN ("negative_prompt" :> np) @@ d0 ELSE d0
    IN  IF Truthy(sd) THEN ("seed" :> sd) @@ d1 ELSE d1

\* lines 12-21: build input_data, log prompt[:50]
PrepareInput ==
    /\ pc = "gm_input"
    /\ input_data' = BuildInput(prompt, negative_prompt, seed)
    /\ IF prompt.t = "str"
       THEN /\ stderr' = Append(stderr, [status |-> "starting: " \o Take(prompt.s, 50)])
            /\ pc' = "gm_run"
            /\ UNCHANGED error_msg
       ELSE /\ error_msg' = "'int' object is not subscriptable"
            /\ pc' = "gm_except"
            /\ UNCHANGED stderr
    /\ UNCHANGED <<argv, env, parsed, prompt, negative_prompt, seed,
                   output, result, stdout, catVars>>

\* lines 24-27: replicate_client.run returns an output or raises
RunModel ==
    /\ pc = "gm_run"
    /\ \/ \E o \in Outputs :
            /\ output' = o
            /\ pc' = "gm_output"
            /\ UNCHANGED error_msg
       \/ \E m \in Messages :
            /\ error_msg' = m
            /\ pc' = "gm_except"
            /\ UNCHANGED output
    /\ UNCHANGED <<argv, env, parsed, prompt, negative_prompt, seed,
                   input_data, result, stdout, stderr, catVars>>

\* Normalize without the hasattr(output, 'url') branch
NormalizeStringOnly(o, p) ==
    IF o.shape = "str"
    THEN [ok |-> TRUE, error |-> "",
          result |-> [success |-> TRUE, audio_url |-> o.url, prompt |-> p]]
    ELSE [ok |-> FALSE, error |-> "Unexpected output type: <class '" \o o.shape \o "'>",
          result |-> NoDict]

\* lines 32-47: FileOutput vs URL string vs anything else
Normalize(o, p) ==
    IF o.shape = "FileOutput"
    THEN [ok |-> TRUE, error |-> "",
          result |-> [success |-> TRUE, audio_url |-> o.url, prompt |-> p]]
    ELSE IF o.shape = "str"
    THEN [ok |-> TRUE, error |-> "",
          result |-> [success |-> TRUE, audio_url |-> o.url, prompt |-> p]]
    ELSE [ok |-> FALSE, error |-> "Unexpected output type: <class '" \o o.shape \o "'>",
          result |-> NoDict]

\* lines 29-52
HandleOutput ==
    /\ pc = "gm_output"
    /\ LET n == Normalize(output, prompt) IN
       IF n.ok
       THEN /\ result' = n.result
            /\ stderr' = Append(Append(stderr, [status |-> "processing"]),
                                [status |-> "success"])
            /\ pc' = "print"
            /\ UNCHANGED error_msg
       ELSE /\ error_msg' = n.error
            /\ stderr' = Append(stderr, [status |-> "processing"])
            /\ pc' = "gm_except"
            /\ UNCHANGED result
    /\ UNCHANGED <<argv, env, parsed, prompt, negative_prompt, seed,
                   input_data, output, stdout, catVars>>

\* Failure with the category taken from categorize_error
FailureViaClassifier(msg) ==
    [success |-> FALSE,
     error |-> categorize_error(msg, "Exception").type,
     message |-> "Music generation failed: " \o msg]

\* lines 59-69: the failure dict generate_music returns for str(e)
Failure(msg) ==
    IF Contains("Prompt was rejected", msg) /\ Contains("artist names", msg)
    THEN [success |-> FALSE,
          error |-> "artist_names_rejected",
          message |-> "Prompt was rejected. Do not include artist names in the prompt."]
    ELSE [success |-> FALSE,
          error |-> "generation_failed",
          message |-> "Music generation failed: " \o msg]

\* lines 54-69: except Exception as e
GenerateExcept ==
    /\ pc = "gm_except"
    /\ stderr' = Append(stderr, [status |-> "error: " \o error_msg])
    /\ result' = Failure(error_msg)
    /\ pc' = "print"
    /\ UNCHANGED <<argv, env, parsed, prompt, negative_prompt, seed,
                   input_data, output, error_msg, stdout, catVars>>

\* json.dumps(result) raises TypeError on a value that is not JSON
Dumpable(r) == r.success => (r.audio_url.t # "obj" /\ r.prompt.t # "obj")

\* line 85 outside the try block: the exception ends the process
PrintRaisesUnhandled == "crashed"

\* where an exception raised by line 85 is handled
PrintRaises == "main_except"

\* lines 84-86: print(json.dumps(result))
PrintResult ==
    /\ pc = "print"
    /\ IF Dumpable(result)
       THEN /\ stdout' = Append(stdout, result)
            /\ pc' = "done"
            /\ UNCHANGED error_msg
       ELSE /\ error_msg' = "Object of type FileOutput is not JSON serializable"
            /\ pc' = PrintRaises
            /\ UNCHANGED stdout
    /\ UNCHANGED <<argv, env, parsed, prompt, negative_prompt, seed,
                   input_data, output, result, stderr, catVars>>

\* lines 88-99: except Exception as e
MainExcept ==
    /\ pc = "main_except"
    /\ stdout' = Append(stdout, [success |-> FALSE,
                                 error |-> "service_error",
                                 message |-> error_msg])
    /\ stderr' = Append(stderr, [status |-> "fatal_error: " \o error_msg])
    /\ pc' = "done"
    /\ UNCHANGED <<argv, env, parsed, prompt, negative_prompt, seed,
                   input_data, output, error_msg, result, catVars>>

Next ==
    \/ ParseArgs
    \/ CallGenerate
    \/ InitClient
    \/ PrepareInput
    \/ RunModel
    \/ HandleOutput
    \/ GenerateExcept
    \/ PrintResult
    \/ MainExcept

Spec == Init /\ [][Next]_vars

(***************************************************************************)
(* Properties                                                              *)
(***************************************************************************)
\* categorize_error has returned for raw_error
Categorized == pc = "done" /\ cat.type # ""

\* the condition of the i-th rule, in the order the spec lists the rules
RuleHolds(i, raw) ==
    LET l == Lower(raw) IN
    CASE i = 1 -> Contains("service is temporarily unavailable", l) \/ Contains("(E004)", raw)
      [] i = 2 -> Contains("prompt was rejected", l) /\ Contains("artist names", l)
      [] i = 3 -> Contains("rate limit", l) \/ Contains("quota exceeded", l)
      [] i = 4 -> Contains("timeout", l) \/ Contains("timed out", l)
      [] i = 5 -> Contains("invalid", l) /\ Contains("token", l)
      [] i = 6 -> Contains("content policy", l) \/ Contains("safety", l)

RuleType ==
    << "service_unavailable", "artist_names_rejected", "rate_limited",
       "timeout", "auth_error", "content_policy" >>

RulesHolding(raw) == { i \in 1..Len(RuleType) : RuleHolds(i, raw) }

FirstOf(S) == CHOOSE i \in S : \A j \in S : i <= j

\* replicate_client.run raised: generate_music got past line 21 and no
\* output was assigned
RaisedByRun ==
    /\ pc \notin {"gm_input", "gm_run"}
    /\ DOMAIN input_data # {}
    /\ prompt.t = "str"
    /\ output.shape = "none"

\* generate_music has returned
Returned == pc \in {"print", "done"} /\ DOMAIN result # {}

\* C1: every raw error containing "service is temporarily unavailable" or
\* the token "(E004)" in any letter case is classified service_unavailable.
C1_AnyCaseE004 ==
    (Categorized
       /\ (Contains("service is temporarily unavailable", Lower(raw_error))
           \/ Contains("(e004)", Lower(raw_error))))
    => cat.type = "service_unavailable"

\* C2: when the provider raises with a message containing both "prompt was
\* rejected" and "artist names" in any letter case, generate_music's failure
\* and categorize_error both say artist_names_rejected.
C2_ArtistNamesBoth ==
    (RaisedByRun /\ Returned
       /\ Contains("prompt was rejected", Lower(error_msg))
       /\ Contains("artist names", Lower(error_msg)))
    => /\ result.success = FALSE
       /\ result.error = "artist_names_rejected"
       /\ categorize_error(error_msg, "Exception").type = "artist_names_rejected"

C4_MissingCredentialServiceError ==
    (pc = "done" /\ ~ env) =>
       /\ Len(stdout) = 1
       /\ stdout[1].success = FALSE
       /\ stdout[1].error = "service_error"

SuccessShape(o) ==
    /\ DOMAIN o = {"success", "audio_url", "prompt"}
    /\ o.success = TRUE
    /\ o.audio_url.t = "str"
    /\ o.prompt.t = "str"

FailureShape(o) ==
    /\ DOMAIN o = {"success", "error", "message"}
    /\ o.success = FALSE
    /\ o.error \in {"artist_names_rejected", "generation_failed", "service_error"}

\* C5: every invocation runs to its end without an unhandled exception and
\* has then written exactly one JSON object, of the success or the failure
\* shape, to stdout; a missing or malformed argument gives service_error.
C5_OneJsonObject ==
    /\ pc \in {"main", "call", "gm_client", "gm_input", "gm_run", "gm_output",
               "gm_except", "print", "main_except", "done"}
    /\ pc # "done" => (stdout = <<>> /\ ENABLED Next)
    /\ pc = "done" =>
         /\ Len(stdout) = 1
         /\ SuccessShape(stdout[1]) \/ FailureShape(stdout[1])
         /\ argv.kind \in {"missing", "malformed"}
              => (~ stdout[1].success /\ stdout[1].error = "service_error")

C5_Witness ==
    /\ pc = "done"
    /\ output.url = Obj
    /\ Len(stdout) = 1
    /\ stdout[1].error = "service_error"

\* C6: the provider input holds prompt, negative_prompt exactly when one was
\* supplied and seed exactly when one was supplied, each with its value.
C6_FieldsPresent ==
    DOMAIN input_data # {} =>
       /\ DOMAIN input_data = DOMAIN parsed
       /\ \A k \in DOMAIN input_data : input_data[k] = parsed[k]

\* C7: a str response s and an object whose url is s give the same Success
\* {success: true, audio_url: s, prompt}; any other response gives a Failure
\* whose message reports an unexpected output type.
C7_Normalization ==
    (Returned /\ output.shape # "none") =>
       IF output.shape \in {"str", "FileOutput"}
       THEN result = [success |-> TRUE, audio_url |-> output.url, prompt |-> prompt]
       ELSE /\ result.success = FALSE
            /\ Contains("Unexpected output type", result.message)

C7_Witness ==
    /\ pc = "done"
    /\ output = [shape |-> "FileOutput", url |-> PyStr(AudioUrl)]
    /\ stdout = << [success |-> TRUE, audio_url |-> PyStr(AudioUrl),
                    prompt |-> PyStr(LongPrompt)] >>

UserMessageOf(type) ==
    CASE type = "service_unavailable" ->
           "The music generation service is temporarily unavailable. Please try again in a few minutes."
      [] type = "artist_names_rejected" ->
           "Prompt was rejected. Please do not include specific artist names in your prompt."
      [] type = "rate_limited" ->
           "Rate limit exceeded. Please wait a moment before trying again."
      [] type = "timeout" ->
           "Music generation timed out. Please try again with a simpler prompt."
      [] type = "auth_error" ->
           "Authentication error. Please contact the bot administrator."
      [] type = "content_policy" ->
           "Your prompt was rejected for safety reasons. Please try a different prompt."
      [] type = "unknown_error" ->
           "An unexpected error occurred. Please try again later."

\* s ends with suffix
EndsWith(s, suffix) ==
    /\ Len(suffix) <= Len(s)
    /\ SubSeq(s, Len(s) - Len(suffix) + 1, Len(s)) = suffix

\* C9: categorize_error returns for every raw error and label one of the
\* seven types, with the user message of that type and a log message holding
\* the raw error; the type is unknown_error exactly when no rule's condition
\* holds.
C9_Total ==
    /\ pc = "cat" =>
         categorize_error(raw_error, error_type).type
           \in {RuleType[i] : i \in 1..Len(RuleType)} \cup {"unknown_error"}
    /\ Categorized =>
         /\ cat.type \in {RuleType[i] : i \in 1..Len(RuleType)} \cup {"unknown_error"}
         /\ cat.userMessage = UserMessageOf(cat.type)
         /\ EndsWith(cat.logMessage, raw_error)
         /\ Len(cat.logMessage) > Len(raw_error)
         /\ cat.type = "unknown_error" <=> RulesHolding(raw_error) = {}
         /\ cat.type = "unknown_error"
              => cat.logMessage = "Unknown error (" \o error_type \o "): " \o raw_error

C9_Witness ==
    /\ Categorized
    /\ raw_error = ""
    /\ cat.type = "unknown_error"
    /\ cat.logMessage = "Unknown error (TestError): "

\* C10: the harness's samples 3, 4, 5, 6, 7 are rate_limited, timeout,
\* auth_error, content_policy, unknown_error; with no earlier rule matching,
\* a message is content_policy when it contains "content policy" or "safety"
\* in any letter case and unknown_error otherwise.
C10_Samples ==
    /\ (pc = "done" /\ Len(printed) = Len(test_errors)) =>
         /\ printed[3].input = "Rate limit exceeded for this API key"
         /\ printed[3].type = "rate_limited"
         /\ printed[4].input = "Request timed out after 60 seconds"
         /\ printed[4].type = "timeout"
         /\ printed[5].input = "Invalid API token provided"
         /\ printed[5].type = "auth_error"
         /\ printed[6].input = "Content violates safety policy"
         /\ printed[6].type = "content_policy"
         /\ printed[7].input = "Some unknown error occurred"
         /\ printed[7].type = "unknown_error"
    /\ (Categorized /\ \A i \in 1..5 : ~ RuleHolds(i, raw_error)) =>
         IF Contains("content policy", Lower(raw_error))
            \/ Contains("safety", Lower(raw_error))
         THEN cat.type = "content_policy"
         ELSE cat.type = "unknown_error"

C10_Witness ==
    /\ pc = "done"
    /\ Len(printed) = Len(test_errors)
    /\ printed[6].input = "Content violates safety policy"
    /\ printed[6].type = "content_policy"
====
